---- MODULE Spec2Model ----
\* A model of the ServerListPing client of src/src/server.rs: the connection
\* builder (ConnectionConfig), the status exchange of StatusConnection
\* (status_raw, status) and the error conversion of ServerError.  The packet
\* codec (crate::protocol) is modelled from its specification.
EXTENDS Integers, Sequences, FiniteSets, TLC

\* ---------------------------------------------------------------- bounds
NumConns == 2        \* connections of the concurrent specification
MaxCalls == 2        \* status / status_raw calls on one connection (Spec)
MaxConv == 3         \* error conversions applied in SpecConv

Conns == 1..NumConns

\* ------------------------------------------------------ program constants
LATEST_PROTOCOL_VERSION == 578
DEFAULT_PORT == 25565
\* The next-state value of a handshake that selects the status phase.
STATUS_NEXT_STATE == 1
\* The packet identifier of Handshake, Request and Response.
PACKET_ID == 0
\* The cap on a declared packet length (2 MiB).
PACKET_CAP == 2097152

\* --------------------------------------------------------- input domains
\* Host names, as text.
Addresses == {"localhost", "mc.example.org"}
\* Arguments of with_port and with_protocol_version.
Ports == {25565, 25566}
Versions == {47, 754}

\* Response bodies, as byte strings.  JsonGood stands for a document that
\* serde_json decodes into a StatusResponse, JsonBad for one it rejects;
\* JsonLong is a decodable document longer than 127 bytes, so that its length
\* prefix takes two VarInt bytes.
JsonGood == <<123, 34, 118, 34, 125>>
JsonBad == <<123, 110, 111>>
JsonLong == [i \in 1..130 |-> IF i = 1 THEN 123 ELSE IF i = 130 THEN 125 ELSE 32]

\* ------------------------------------------------- the codec (VarInt, framing)
\* encode: 7 payload bits per byte, least significant group first, high bit
\* set on every byte but the last.
RECURSIVE EncodeVarInt(_)
EncodeVarInt(v) ==
    IF v < 128 THEN <<v>>
    ELSE <<128 + (v % 128)>> \o EncodeVarInt(v \div 128)

RECURSIVE Pow128(_)
Pow128(n) == IF n = 0 THEN 1 ELSE 128 * Pow128(n - 1)

\* decode: reads bytes one at a time from position 1; n bytes were read
\* before and carry the value acc.  Fails with UnexpectedEof when the source
\* ends first, with MalformedVarInt when the 5th byte still has its
\* continuation bit set.  The 32-bit value is given as lo (bits 0..27, the
\* payload of bytes 1..4) and hi (bits 28..31, from the 5th byte).
RECURSIVE DecodeVarIntFrom(_, _, _)
DecodeVarIntFrom(bytes, n, acc) ==
    IF bytes = <<>>
    THEN [ok |-> FALSE, err |-> "UnexpectedEof", lo |-> 0, hi |-> 0, rest |-> <<>>]
    ELSE LET b == Head(bytes)
         IN  IF n = 4
             THEN IF b < 128
                  THEN [ok |-> TRUE, err |-> "", lo |-> acc, hi |-> b % 16,
                        rest |-> Tail(bytes)]
                  ELSE [ok |-> FALSE, err |-> "MalformedVarInt", lo |-> 0, hi |-> 0,
                        rest |-> Tail(bytes)]
             ELSE IF b < 128
                  THEN [ok |-> TRUE, err |-> "", lo |-> acc + b * Pow128(n), hi |-> 0,
                        rest |-> Tail(bytes)]
                  ELSE DecodeVarIntFrom(Tail(bytes), n + 1, acc + (b % 128) * Pow128(n))

DecodeVarInt(bytes) == DecodeVarIntFrom(bytes, 0, 0)

\* A decoded value exceeds the bound k (k below 2^28).
Exceeds(v, k) == v.hi > 0 \/ v.lo > k

\* A string field: its byte length as a VarInt, then the bytes.
EncodeString(s) == EncodeVarInt(Len(s)) \o s

\* write_packet's frame: VarInt(length of body), then the body.
Frame(body) == EncodeVarInt(Len(body)) \o body

\* The body of a Response packet: identifier, then the string field.
ResponseBody(id, s) == EncodeVarInt(id) \o EncodeString(s)

\* read_packet's framing: a VarInt length, then exactly that many bytes.
ReadFrame(bytes) ==
    LET l == DecodeVarInt(bytes)
    IN  IF ~l.ok THEN [ok |-> FALSE, err |-> l.err, body |-> <<>>, rest |-> l.rest]
        ELSE IF Exceeds(l, PACKET_CAP)
        THEN [ok |-> FALSE, err |-> "PacketTooLarge", body |-> <<>>, rest |-> l.rest]
        ELSE IF Len(l.rest) < l.lo
        THEN [ok |-> FALSE, err |-> "UnexpectedEof", body |-> <<>>, rest |-> <<>>]
        ELSE [ok |-> TRUE, err |-> "",
              body |-> SubSeq(l.rest, 1, l.lo),
              rest |-> SubSeq(l.rest, l.lo + 1, Len(l.rest))]

\* ResponsePacket's deserialization of a packet body: the identifier must be
\* PACKET_ID, then the length-prefixed string; trailing bytes are ignored.
DeserializeResponse(body) ==
    LET id == DecodeVarInt(body)
    IN  IF ~id.ok THEN [ok |-> FALSE, err |-> id.err, body |-> <<>>]
        ELSE IF id.hi # 0 \/ id.lo # PACKET_ID
        THEN [ok |-> FALSE, err |-> "UnexpectedPacketId", body |-> <<>>]
        ELSE LET n == DecodeVarInt(id.rest)
             IN  IF ~n.ok THEN [ok |-> FALSE, err |-> n.err, body |-> <<>>]
                 ELSE IF Exceeds(n, Len(n.rest))
                 THEN [ok |-> FALSE, err |-> "UnexpectedEof", body |-> <<>>]
                 ELSE [ok |-> TRUE, err |-> "", body |-> SubSeq(n.rest, 1, n.lo)]

\* read_packet::<ResponsePacket>() on a stream that will deliver `bytes` and
\* then close; ioOk = FALSE is a failure of the transport itself.
ReadPacket(bytes, ioOk) ==
    IF ~ioOk THEN [ok |-> FALSE, err |-> "IoError", body |-> <<>>, rest |-> bytes]
    ELSE LET f == ReadFrame(bytes)
         IN  IF ~f.ok THEN [ok |-> FALSE, err |-> f.err, body |-> <<>>, rest |-> f.rest]
             ELSE LET r == DeserializeResponse(f.body)
                  IN  [ok |-> r.ok, err |-> r.err, body |-> r.body, rest |-> f.rest]

\* The failures of the codec.
ProtocolErrorKinds ==
    {"MalformedVarInt", "UnexpectedEof", "PacketTooLarge", "UnexpectedPacketId", "IoError"}

\* ------------------------------------------------------ what a server sends
\* Everything a server delivers on one connection before it closes it: `kind`
\* says how the bytes were made, `body` is the string of the first Response
\* packet the server sent (if it sent one), `later` the strings of the
\* Response packets it sent after that one.
WellFormed(b) == Frame(ResponseBody(PACKET_ID, b))

ServerStreams == <<
    [kind |-> "ok", body |-> JsonGood, later |-> <<>>, bytes |-> WellFormed(JsonGood)],
    [kind |-> "ok", body |-> JsonBad, later |-> <<>>, bytes |-> WellFormed(JsonBad)],
    [kind |-> "ok", body |-> JsonLong, later |-> <<>>, bytes |-> WellFormed(JsonLong)],
    [kind |-> "ok", body |-> JsonGood, later |-> <<>>,
     bytes |-> Frame(ResponseBody(PACKET_ID, JsonGood) \o <<7, 7>>)],
    [kind |-> "ok", body |-> JsonBad, later |-> <<JsonGood>>,
     bytes |-> WellFormed(JsonBad) \o WellFormed(JsonGood)],
    [kind |-> "wrong_id", body |-> JsonGood, later |-> <<>>,
     bytes |-> Frame(ResponseBody(1, JsonGood))],
    [kind |-> "closed", body |-> <<>>, later |-> <<>>, bytes |-> <<>>],
    [kind |-> "truncated", body |-> JsonGood, later |-> <<>>,
     bytes |-> SubSeq(WellFormed(JsonGood), 1, 4)],
    [kind |-> "overlong_varint", body |-> <<>>, later |-> <<>>,
     bytes |-> <<255, 255, 255, 255, 255, 255>>],
    [kind |-> "too_large", body |-> <<>>, later |-> <<>>, bytes |-> EncodeVarInt(100000000)],
    [kind |-> "too_large", body |-> <<>>, later |-> <<>>, bytes |-> <<128, 128, 128, 128, 1>>]
>>

StreamIds == 1..Len(ServerStreams)

\* ------------------------------------------------------------ error values
\* A call's outcome as the caller sees it.  A success carries `body` (kind
\* "String" from status_raw, "StatusResponse" from status).  A failure carries
\* `error`, the typed error at the root of the anyhow error (a ProtocolError
\* kind, or the ServerError variant FailedToConnect or InvalidJson), and
\* `context`, the message status_raw attached to it.
Ok(kind, body) ==
    [ok |-> TRUE, kind |-> kind, body |-> body, error |-> "", context |-> ""]
Err(error, context) ==
    [ok |-> FALSE, kind |-> "Err", body |-> <<>>, error |-> error, context |-> context]
NoResult ==
    [ok |-> FALSE, kind |-> "none", body |-> <<>>, error |-> "", context |-> ""]

\* Mutant: the conversion files an unexpected packet id under InvalidJson.
FromProtocolError_AsJson(err) ==
    IF err = "UnexpectedPacketId" THEN "InvalidJson" ELSE "ProtocolError"

\* impl From<protocol::ProtocolError> for ServerError
FromProtocolError(err) == "ProtocolError"

\* The variants of ServerError.
ServerErrorVariants == {"ProtocolError", "FailedToConnect", "InvalidJson"}

\* ------------------------------------------------------------- the builder
NoConfig == [protocol_version |-> 0, address |-> "", port |-> 0]
NoConn == [exists |-> FALSE, protocol_version |-> 0, address |-> "", port |-> 0]
\* No argument was given (with_port or with_protocol_version was not called).
NoArg == -1

\* ConnectionConfig::build
build(address) ==
    [protocol_version |-> LATEST_PROTOCOL_VERSION,
     address |-> address,
     port |-> DEFAULT_PORT]

\* ConnectionConfig::with_protocol_version
with_protocol_version(cfg, protocol_version) ==
    [cfg EXCEPT !.protocol_version = protocol_version]

\* ConnectionConfig::with_port
with_port(cfg, port) == [cfg EXCEPT !.port = port]

\* Mutant: connect produces the connection whatever TcpStream::connect said.
ConnectOutcome_Unchecked(cfg, transportOk) ==
    [result |-> "Ok",
     conn |-> [exists |-> TRUE,
               protocol_version |-> cfg.protocol_version,
               address |-> cfg.address,
               port |-> cfg.port]]

\* ConnectionConfig::connect, given the outcome of TcpStream::connect.
ConnectOutcome(cfg, transportOk) ==
    IF transportOk
    THEN [result |-> "Ok",
          conn |-> [exists |-> TRUE,
                    protocol_version |-> cfg.protocol_version,
                    address |-> cfg.address,
                    port |-> cfg.port]]
    ELSE [result |-> "FailedToConnect", conn |-> NoConn]

\* ------------------------------------------------------------- the packets
NoPacket == [type |-> "none"]

\* protocol::HandshakePacket::new
HandshakePacketNew(protocol_version, address, port) ==
    [type |-> "Handshake",
     protocol_version |-> protocol_version,
     server_address |-> address,
     server_port |-> port,
     next_state |-> STATUS_NEXT_STATE]

\* protocol::RequestPacket::new
RequestPacketNew == [type |-> "Request"]

\* Mutant: the handshake carries the default port, not the connection's.
HandshakeOf_DefaultPort(connection) ==
    HandshakePacketNew(connection.protocol_version, connection.address, DEFAULT_PORT)

\* The handshake status_raw builds from the connection's fields.
HandshakeOf(connection) ==
    HandshakePacketNew(connection.protocol_version, connection.address, connection.port)

\* serde_json::from_str::<StatusResponse>(body) succeeds.
Decodable(body) == body \in {JsonGood, JsonLong}

\* Mutant: status_raw drops the last byte of the body.
StatusRawOk_Truncates(response) ==
    Ok("String", SubSeq(response.body, 1, Len(response.body) - 1))

\* What status_raw returns once the response packet was read.
StatusRawOk(response) == Ok("String", response.body)

\* Mutant: status reports every failure as InvalidJson.
StatusOf_Conflates(rawResult) ==
    IF rawResult.ok /\ Decodable(rawResult.body)
    THEN Ok("StatusResponse", rawResult.body)
    ELSE Err("InvalidJson", "")

\* status: the failure of status_raw as it is, else the decoded body or
\* InvalidJson.
StatusOf(rawResult) ==
    IF ~rawResult.ok THEN rawResult
    ELSE IF Decodable(rawResult.body)
    THEN Ok("StatusResponse", rawResult.body)
    ELSE Err("InvalidJson", "")

\* ------------------------------------------------------------------- state
VARIABLES
    phase,          \* per connection slot: "none", "building", "connected", "failed"
    config,         \* the ConnectionConfig being built
    asked,          \* what the caller gave the builder (address, port, version)
    transport,      \* the TcpStream: "none", "open", "refused"
    conn,           \* the StatusConnection's fields (exists = it was produced)
    connectResult,  \* what connect returned: "none", "Ok", "FailedToConnect"
    incoming,       \* the bytes the stream will still deliver
    served,         \* which of ServerStreams the peer sends (0: none)
    pc,             \* where the running call is suspended, or "idle"
    api,            \* the entry point of the running or last call
    calls,          \* calls started on the connection
    pending,        \* the packet handed to the write in flight
    written,        \* the packets written to the stream, in order
    ioLog,          \* every stream operation: [call, op, ev], ev start/ok/fail
    raw,            \* what status_raw returned to the last finished call
    result,         \* what the last finished call returned to the caller
    convLog         \* the conversions applied: [from, to]

cfgVars == <<phase, config, asked, transport, conn, connectResult, served>>
callVars == <<pc, api, calls, pending, written, ioLog, raw, result>>
vars == <<phase, config, asked, transport, conn, connectResult, incoming, served,
          pc, api, calls, pending, written, ioLog, raw, result, convLog>>

NoAsk == [address |-> "", port |-> NoArg, protocol_version |-> NoArg]

Init ==
    /\ phase = [c \in Conns |-> "none"]
    /\ config = [c \in Conns |-> NoConfig]
    /\ asked = [c \in Conns |-> NoAsk]
    /\ transport = [c \in Conns |-> "none"]
    /\ conn = [c \in Conns |-> NoConn]
    /\ connectResult = [c \in Conns |-> "none"]
    /\ incoming = [c \in Conns |-> <<>>]
    /\ served = [c \in Conns |-> 0]
    /\ pc = [c \in Conns |-> "idle"]
    /\ api = [c \in Conns |-> "none"]
    /\ calls = [c \in Conns |-> 0]
    /\ pending = [c \in Conns |-> NoPacket]
    /\ written = [c \in Conns |-> <<>>]
    /\ ioLog = [c \in Conns |-> <<>>]
    /\ raw = [c \in Conns |-> NoResult]
    /\ result = [c \in Conns |-> NoResult]
    /\ convLog = <<>>

\* An entry of ioLog: ev is "start", "ok" or "fail"; error is the failure's kind.
Event(c, op, ev, error) == [call |-> calls[c], op |-> op, ev |-> ev, error |-> error]

\* ------------------------------------------------------ the builder's actions
Build(c, address) ==
    /\ phase[c] = "none"
    /\ phase' = [phase EXCEPT ![c] = "building"]
    /\ config' = [config EXCEPT ![c] = build(address)]
    /\ asked' = [asked EXCEPT ![c] = [NoAsk EXCEPT !.address = address]]
    /\ UNCHANGED <<transport, conn, connectResult, incoming, served, convLog>>
    /\ UNCHANGED callVars

WithProtocolVersion(c, v) ==
    /\ phase[c] = "building"
    /\ config' = [config EXCEPT ![c] = with_protocol_version(config[c], v)]
    /\ asked' = [asked EXCEPT ![c].protocol_version = v]
    /\ UNCHANGED <<phase, transport, conn, connectResult, incoming, served, convLog>>
    /\ UNCHANGED callVars

WithPort(c, p) ==
    /\ phase[c] = "building"
    /\ config' = [config EXCEPT ![c] = with_port(config[c], p)]
    /\ asked' = [asked EXCEPT ![c].port = p]
    /\ UNCHANGED <<phase, transport, conn, connectResult, incoming, served, convLog>>
    /\ UNCHANGED callVars

\* connect consumes cfg; transportOk is the outcome of TcpStream::connect and
\* s the stream the peer will send.
ConnectWith(c, cfg, transportOk, s) ==
    LET out == ConnectOutcome(cfg, transportOk)
    IN  /\ phase' = [phase EXCEPT ![c] = IF out.conn.exists THEN "connected" ELSE "failed"]
        /\ transport' = [transport EXCEPT ![c] = IF transportOk THEN "open" ELSE "refused"]
        /\ conn' = [conn EXCEPT ![c] = out.conn]
        /\ connectResult' = [connectResult EXCEPT ![c] = out.result]
        /\ incoming' = [incoming EXCEPT ![c] =
                            IF transportOk THEN ServerStreams[s].bytes ELSE <<>>]
        /\ served' = [served EXCEPT ![c] = IF transportOk THEN s ELSE 0]

\* ConnectionConfig::connect
Connect(c, transportOk, s) ==
    /\ phase[c] = "building"
    /\ ConnectWith(c, config[c], transportOk, s)
    /\ UNCHANGED <<config, asked, convLog>>
    /\ UNCHANGED callVars

\* connect(address): build(address).connect()
ConnectFn(c, address, transportOk, s) ==
    /\ phase[c] = "none"
    /\ config' = [config EXCEPT ![c] = build(address)]
    /\ asked' = [asked EXCEPT ![c] = [NoAsk EXCEPT !.address = address]]
    /\ ConnectWith(c, build(address), transportOk, s)
    /\ UNCHANGED convLog
    /\ UNCHANGED callVars

\* ------------------------------------------------------ the status exchange
\* Returning from status_raw with rawResult: status_raw's caller gets it as it
\* is, status's caller gets StatusOf(rawResult).
Return(c, rawResult) ==
    /\ raw' = [raw EXCEPT ![c] = rawResult]
    /\ result' = [result EXCEPT ![c] =
                      IF api[c] = "status" THEN StatusOf(rawResult) ELSE rawResult]
    /\ pc' = [pc EXCEPT ![c] = "idle"]
    /\ pending' = [pending EXCEPT ![c] = NoPacket]

\* Entering status_raw (directly, or from status): the handshake is built from
\* the connection's fields and its write_packet is awaited.
Enter(c, entry, limit) ==
    /\ conn[c].exists
    /\ pc[c] = "idle"
    /\ calls[c] < limit
    /\ calls' = [calls EXCEPT ![c] = @ + 1]
    /\ api' = [api EXCEPT ![c] = entry]
    /\ pending' = [pending EXCEPT ![c] = HandshakeOf(conn[c])]
    /\ ioLog' = [ioLog EXCEPT ![c] =
                     Append(@, [call |-> calls[c] + 1, op |-> "write_handshake",
                                ev |-> "start", error |-> ""])]
    /\ pc' = [pc EXCEPT ![c] = "write_handshake"]
    /\ raw' = [raw EXCEPT ![c] = NoResult]
    /\ result' = [result EXCEPT ![c] = NoResult]
    /\ UNCHANGED <<written, incoming, convLog>>
    /\ UNCHANGED cfgVars

\* StatusConnection::status_raw, called by the user
StatusRaw(c, limit) == Enter(c, "status_raw", limit)

\* StatusConnection::status, called by the user
Status(c, limit) == Enter(c, "status", limit)

\* Mutant: after the handshake status_raw reads at once, the request is
\* never written.
HandshakeWritten_SkipsRequest(c, ioOk) ==
    /\ pc[c] = "write_handshake"
    /\ IF ioOk
       THEN /\ written' = [written EXCEPT ![c] = Append(@, pending[c])]
            /\ ioLog' = [ioLog EXCEPT ![c] =
                             @ \o <<Event(c, "write_handshake", "ok", ""),
                                    Event(c, "read_response", "start", "")>>]
            /\ pending' = [pending EXCEPT ![c] = NoPacket]
            /\ pc' = [pc EXCEPT ![c] = "read_response"]
            /\ UNCHANGED <<raw, result>>
       ELSE /\ ioLog' = [ioLog EXCEPT ![c] =
                             Append(@, Event(c, "write_handshake", "fail", "IoError"))]
            /\ Return(c, Err("IoError", "failed to write handshake packet"))
            /\ UNCHANGED written
    /\ UNCHANGED <<api, calls, incoming, convLog>>
    /\ UNCHANGED cfgVars

\* The handshake's write_packet completes: on success the request's
\* write_packet is awaited, on failure status_raw returns the failure.
HandshakeWritten(c, ioOk) ==
    /\ pc[c] = "write_handshake"
    /\ IF ioOk
       THEN /\ written' = [written EXCEPT ![c] = Append(@, pending[c])]
            /\ ioLog' = [ioLog EXCEPT ![c] =
                             @ \o <<Event(c, "write_handshake", "ok", ""),
                                    Event(c, "write_request", "start", "")>>]
            /\ pending' = [pending EXCEPT ![c] = RequestPacketNew]
            /\ pc' = [pc EXCEPT ![c] = "write_request"]
            /\ UNCHANGED <<raw, result>>
       ELSE /\ ioLog' = [ioLog EXCEPT ![c] =
                             Append(@, Event(c, "write_handshake", "fail", "IoError"))]
            /\ Return(c, Err("IoError", "failed to write handshake packet"))
            /\ UNCHANGED written
    /\ UNCHANGED <<api, calls, incoming, convLog>>
    /\ UNCHANGED cfgVars

\* Mutant: a failed request write is ignored and the response is read.
RequestWritten_Swallows(c, ioOk) ==
    /\ pc[c] = "write_request"
    /\ written' = [written EXCEPT ![c] = IF ioOk THEN Append(@, pending[c]) ELSE @]
    /\ ioLog' = [ioLog EXCEPT ![c] =
                     @ \o <<Event(c, "write_request", IF ioOk THEN "ok" ELSE "fail",
                                  IF ioOk THEN "" ELSE "IoError"),
                            Event(c, "read_response", "start", "")>>]
    /\ pending' = [pending EXCEPT ![c] = NoPacket]
    /\ pc' = [pc EXCEPT ![c] = "read_response"]
    /\ UNCHANGED <<raw, result>>
    /\ UNCHANGED <<api, calls, incoming, convLog>>
    /\ UNCHANGED cfgVars

\* The request's write_packet completes: on success read_packet is awaited.
RequestWritten(c, ioOk) ==
    /\ pc[c] = "write_request"
    /\ IF ioOk
       THEN /\ written' = [written EXCEPT ![c] = Append(@, pending[c])]
            /\ ioLog' = [ioLog EXCEPT ![c] =
                             @ \o <<Event(c, "write_request", "ok", ""),
                                    Event(c, "read_response", "start", "")>>]
            /\ pending' = [pending EXCEPT ![c] = NoPacket]
            /\ pc' = [pc EXCEPT ![c] = "read_response"]
            /\ UNCHANGED <<raw, result>>
       ELSE /\ ioLog' = [ioLog EXCEPT ![c] =
                             Append(@, Event(c, "write_request", "fail", "IoError"))]
            /\ Return(c, Err("IoError", "failed to write request packet"))
            /\ UNCHANGED written
    /\ UNCHANGED <<api, calls, incoming, convLog>>
    /\ UNCHANGED cfgVars

\* read_packet completes on the bytes `from` delivers: status_raw returns the
\* response's body, or the failure.
ResponseReadFrom(c, from, ioOk) ==
    LET response == ReadPacket(incoming[from], ioOk)
    IN  /\ pc[c] = "read_response"
        /\ incoming' = [incoming EXCEPT ![from] = response.rest]
        /\ ioLog' = [ioLog EXCEPT ![c] =
                         Append(@, Event(c, "read_response",
                                         IF response.ok THEN "ok" ELSE "fail",
                                         response.err))]
        /\ Return(c, IF response.ok
                     THEN StatusRawOk(response)
                     ELSE Err(response.err, "failed to read response packet"))
        /\ UNCHANGED <<api, calls, written, convLog>>
        /\ UNCHANGED cfgVars

\* Mutant: every connection reads from one shared stream, the first's.
ResponseRead_Shared(c, ioOk) == ResponseReadFrom(c, 1, ioOk)

\* self.stream.read_packet(): the connection reads its own stream.
ResponseRead(c, ioOk) == ResponseReadFrom(c, c, ioOk)

\* ---------------------------------------------------------- specifications
\* Spec: one connection slot, from the builder to MaxCalls calls.
Next ==
    \/ \E a \in Addresses : Build(1, a)
    \/ \E v \in Versions : WithProtocolVersion(1, v)
    \/ \E p \in Ports : WithPort(1, p)
    \/ \E ok \in BOOLEAN, s \in StreamIds : Connect(1, ok, s)
    \/ \E a \in Addresses, ok \in BOOLEAN, s \in StreamIds : ConnectFn(1, a, ok, s)
    \/ StatusRaw(1, MaxCalls)
    \/ Status(1, MaxCalls)
    \/ \E ok \in BOOLEAN : HandshakeWritten(1, ok)
    \/ \E ok \in BOOLEAN : RequestWritten(1, ok)
    \/ \E ok \in BOOLEAN : ResponseRead(1, ok)

Spec == Init /\ [][Next]_vars

\* SpecConc: NumConns connections, each already connected to its own port of
\* one host, run concurrently the one exchange the protocol gives a connection.
ConcStreams == {1, 2, 6}
ConcConfig(c) == with_port(build("localhost"), DEFAULT_PORT + c)

InitConc ==
    /\ phase = [c \in Conns |-> "connected"]
    /\ config = [c \in Conns |-> ConcConfig(c)]
    /\ asked = [c \in Conns |->
                   [address |-> "localhost", port |-> DEFAULT_PORT + c,
                    protocol_version |-> NoArg]]
    /\ transport = [c \in Conns |-> "open"]
    /\ conn = [c \in Conns |-> ConnectOutcome(ConcConfig(c), TRUE).conn]
    /\ connectResult = [c \in Conns |-> "Ok"]
    /\ served \in [Conns -> ConcStreams]
    /\ incoming = [c \in Conns |-> ServerStreams[served[c]].bytes]
    /\ pc = [c \in Conns |-> "idle"]
    /\ api = [c \in Conns |-> "none"]
    /\ calls = [c \in Conns |-> 0]
    /\ pending = [c \in Conns |-> NoPacket]
    /\ written = [c \in Conns |-> <<>>]
    /\ ioLog = [c \in Conns |-> <<>>]
    /\ raw = [c \in Conns |-> NoResult]
    /\ result = [c \in Conns |-> NoResult]
    /\ convLog = <<>>

NextConc ==
    \/ \E c \in Conns : StatusRaw(c, 1)
    \/ \E c \in Conns : Status(c, 1)
    \/ \E c \in Conns, ok \in BOOLEAN : HandshakeWritten(c, ok)
    \/ \E c \in Conns, ok \in BOOLEAN : RequestWritten(c, ok)
    \/ \E c \in Conns, ok \in BOOLEAN : ResponseRead(c, ok)

SpecConc == InitConc /\ [][NextConc]_vars

\* SpecConv: the conversion ServerError::from applied to codec failures.
Convert(e) ==
    /\ Len(convLog) < MaxConv
    /\ convLog' = Append(convLog, [from |-> e, to |-> FromProtocolError(e)])
    /\ UNCHANGED <<incoming>>
    /\ UNCHANGED cfgVars
    /\ UNCHANGED callVars

NextConv == \E e \in ProtocolErrorKinds : Convert(e)

SpecConv == Init /\ [][NextConv]_vars

\* ------------------------------------------------------ reading the log
\* The stream operations of the connection's k-th call, in order.
CallOps(c, k) == SelectSeq(ioLog[c], LAMBDA e : e.call = k)

\* The k-th call has returned.
Returned(c, k) == k < calls[c] \/ (k = calls[c] /\ pc[c] = "idle")

\* The operations of one exchange, in the order of the protocol.
ExchangeOrder == <<"write_handshake", "write_request", "read_response">>

\* A call on the connection has reached ResponseReceived.
ReachedTerminal(c) ==
    \E i \in 1..Len(ioLog[c]) :
        ioLog[c][i].op = "read_response" /\ ioLog[c][i].ev = "ok"

\* A step of a call on the connection has failed.
HasFailed(c) == \E i \in 1..Len(ioLog[c]) : ioLog[c][i].ev = "fail"

\* Stream operations started and not yet completed.
Outstanding(c) ==
    Len(SelectSeq(ioLog[c], LAMBDA e : e.ev = "start"))
        - Len(SelectSeq(ioLog[c], LAMBDA e : e.ev # "start"))

\* ------------------------------------------------------------------ claims

\* C1: within every call of status_raw the stream operations are, in this
\* order, the handshake write, the request write and the read of the
\* response; an operation starts only when the one before it has completed
\* with success, none is skipped and none is repeated, and a call that
\* returns a body has performed all three.
C1_ExchangeOrder ==
    \A c \in Conns : \A k \in 1..calls[c] :
        LET ops == CallOps(c, k)
        IN  /\ Len(ops) >= 1
            /\ Len(ops) <= 2 * Len(ExchangeOrder)
            /\ \A i \in 1..Len(ops) :
                   /\ ops[i].op = ExchangeOrder[(i + 1) \div 2]
                   /\ (i % 2 = 1) => ops[i].ev = "start"
                   /\ (i % 2 = 0) => ops[i].ev \in {"ok", "fail"}
                   /\ (i % 2 = 1 /\ i > 1) => ops[i - 1].ev = "ok"
            /\ (k = calls[c] /\ pc[c] # "idle") =>
                   /\ Len(ops) % 2 = 1
                   /\ ops[Len(ops)].op = pc[c]
            /\ (k = calls[c] /\ pc[c] = "idle") =>
                   /\ Len(ops) % 2 = 0
                   /\ raw[c].ok => Len(ops) = 2 * Len(ExchangeOrder)

\* C1 witness: a call has written the handshake, written the request and
\* read the response, and has returned the body.
C1_Witness ==
    /\ calls[1] = 1 /\ pc[1] = "idle" /\ raw[1].ok
    /\ Len(CallOps(1, 1)) = 6
    /\ written[1] = <<HandshakeOf(conn[1]), RequestPacketNew>>

\* C2 (as claimed): once a call on a connection has reached ResponseReceived,
\* no later call writes another packet to its stream.
C2_SingleUse ==
    [][\A c \in Conns : ReachedTerminal(c) => written'[c] = written[c]]_vars

\* C3: a call stops at its first failing step and returns that failure: after
\* a failed handshake write there is no request write and no read, after a
\* failed request write no read, no operation is tried twice, and the call
\* that failed returns the failure of that step (with the step's message) and
\* no body.
C3_AbortOnFirstFailure ==
    \A c \in Conns : \A k \in 1..calls[c] :
        LET ops == CallOps(c, k)
        IN  /\ \A i \in 1..Len(ops) : ops[i].ev = "fail" => i = Len(ops)
            /\ \A i, j \in 1..Len(ops) :
                   (ops[i].op = ops[j].op /\ ops[i].ev = ops[j].ev) => i = j
            /\ (Returned(c, k) /\ ops[Len(ops)].ev = "fail" /\ k = calls[c]) =>
                   /\ ~raw[c].ok /\ ~result[c].ok
                   /\ raw[c].body = <<>> /\ result[c].body = <<>>
                   /\ result[c] = raw[c]
                   /\ raw[c].error = ops[Len(ops)].error
                   /\ raw[c].error \in ProtocolErrorKinds
                   /\ raw[c].context =
                          CASE ops[Len(ops)].op = "write_handshake" ->
                                   "failed to write handshake packet"
                            [] ops[Len(ops)].op = "write_request" ->
                                   "failed to write request packet"
                            [] OTHER -> "failed to read response packet"
            /\ (Returned(c, k) /\ k = calls[c] /\ raw[c].ok) =>
                   \A i \in 1..Len(ops) : ops[i].ev # "fail"

\* C3 witness: the server answered with packet id 1; the call has returned
\* UnexpectedPacketId and no body.
C3_Witness ==
    /\ served[1] # 0 /\ ServerStreams[served[1]].kind = "wrong_id"
    /\ calls[1] = 1 /\ pc[1] = "idle"
    /\ raw[1].error = "UnexpectedPacketId" /\ raw[1].body = <<>>
    /\ Len(CallOps(1, 1)) = 6

\* C4 (as claimed): once a step has failed on a connection, no later call
\* performs a stream operation on it or returns a body.
C4_UnusableAfterFailure ==
    [][\A c \in Conns :
           HasFailed(c) => (ioLog'[c] = ioLog[c] /\ ~result'[c].ok)]_vars

\* C5: when both packets were written and the server's answer is a
\* well-formed Response packet that the transport delivers, the first call's
\* status_raw returns exactly the string of that packet, as a string; and
\* whatever body status_raw returns is a string the server sent.
C5_ExactBody ==
    \A c \in Conns :
        (calls[c] >= 1 /\ pc[c] = "idle") =>
            /\ (/\ calls[c] = 1
                /\ ServerStreams[served[c]].kind = "ok"
                /\ Len(written[c]) = 2
                /\ raw[c].error # "IoError") =>
                   raw[c] = Ok("String", ServerStreams[served[c]].body)
            /\ raw[c].ok =>
                   /\ raw[c].kind = "String"
                   /\ \/ raw[c].body = ServerStreams[served[c]].body
                      \/ /\ calls[c] > 1
                         /\ \E i \in 1..Len(ServerStreams[served[c]].later) :
                                raw[c].body = ServerStreams[served[c]].later[i]

\* C5 witness: the server sent the 130-byte body and status_raw returned it.
C5_Witness ==
    /\ served[1] = 3 /\ calls[1] = 1 /\ pc[1] = "idle" /\ api[1] = "status_raw"
    /\ result[1].ok /\ result[1].body = JsonLong /\ Len(result[1].body) = 130

\* C6: status fails with InvalidJson exactly when status_raw succeeded and
\* its body does not decode; a failure of the exchange reaches status's caller
\* unchanged, as a codec failure, never as InvalidJson; status_raw itself
\* never reports InvalidJson.
C6_InvalidJsonDistinct ==
    \A c \in Conns :
        (calls[c] >= 1 /\ pc[c] = "idle") =>
            /\ api[c] = "status" =>
                   /\ (result[c].error = "InvalidJson") <=>
                          (raw[c].ok /\ raw[c].body \notin {JsonGood, JsonLong})
                   /\ ~raw[c].ok =>
                          /\ result[c] = raw[c]
                          /\ result[c].error \in ProtocolErrorKinds
                   /\ result[c].ok =>
                          /\ raw[c].ok
                          /\ result[c] = Ok("StatusResponse", raw[c].body)
            /\ raw[c].error # "InvalidJson"
            /\ api[c] = "status_raw" => result[c] = raw[c]

\* C6 witness: status_raw returned a body that does not decode and status
\* failed with InvalidJson.
C6_Witness ==
    /\ api[1] = "status" /\ pc[1] = "idle" /\ calls[1] = 1
    /\ raw[1] = Ok("String", JsonBad)
    /\ result[1].error = "InvalidJson"

\* C7 (as claimed): two different codec failures convert to two different
\* values of the outer error.
C7_PreservesCondition ==
    \A i, j \in 1..Len(convLog) :
        convLog[i].from # convLog[j].from => convLog[i].to # convLog[j].to

\* C7 (amended): every codec failure converts to the one variant
\* ServerError::ProtocolError, which is neither FailedToConnect nor
\* InvalidJson; the conversion does not keep which failure it was.
C7_CollapsesToProtocolError ==
    \A i \in 1..Len(convLog) :
        /\ convLog[i].from \in ProtocolErrorKinds
        /\ convLog[i].to = "ProtocolError"
        /\ convLog[i].to \in ServerErrorVariants \ {"FailedToConnect", "InvalidJson"}

\* C7 witness: an unexpected packet id and a premature end of stream were
\* both converted.
C7_Witness ==
    \E i, j \in 1..Len(convLog) :
        /\ convLog[i].from = "UnexpectedPacketId"
        /\ convLog[j].from = "UnexpectedEof"

\* C8: a StatusConnection exists exactly when the transport connected and
\* connect returned Ok; a refused transport gives FailedToConnect, no
\* connection, and nothing is ever written or read; before the first call
\* nothing was written and the connection is idle.
C8_ConnectThenConnection ==
    \A c \in Conns :
        /\ conn[c].exists <=> transport[c] = "open"
        /\ conn[c].exists <=> connectResult[c] = "Ok"
        /\ conn[c].exists <=> phase[c] = "connected"
        /\ transport[c] = "refused" <=> connectResult[c] = "FailedToConnect"
        /\ transport[c] = "refused" =>
               /\ phase[c] = "failed"
               /\ written[c] = <<>> /\ ioLog[c] = <<>> /\ calls[c] = 0
        /\ ~conn[c].exists => (written[c] = <<>> /\ ioLog[c] = <<>> /\ pc[c] = "idle")
        /\ calls[c] = 0 => (written[c] = <<>> /\ ioLog[c] = <<>> /\ pc[c] = "idle")

\* C8 witness: the transport refused, connect returned FailedToConnect.
C8_Witness ==
    /\ transport[1] = "refused"
    /\ connectResult[1] = "FailedToConnect"
    /\ ~conn[1].exists

\* The configuration the caller asked for: the address given to build, port
\* 25565 and protocol version 578 unless with_port and with_protocol_version
\* gave others.
AskedConfig(c) ==
    [protocol_version |->
         IF asked[c].protocol_version = NoArg THEN 578 ELSE asked[c].protocol_version,
     address |-> asked[c].address,
     port |-> IF asked[c].port = NoArg THEN 25565 ELSE asked[c].port]

\* C9: the builder's configuration and the connection's fields are the values
\* the caller asked for, and every handshake handed to the stream carries
\* exactly them, with next state 1; so all handshakes of a connection are
\* equal.
C9_HandshakeFromConfig ==
    \A c \in Conns :
        LET want == AskedConfig(c)
            hs == [type |-> "Handshake",
                   protocol_version |-> want.protocol_version,
                   server_address |-> want.address,
                   server_port |-> want.port,
                   next_state |-> 1]
        IN  /\ phase[c] # "none" => config[c] = want
            /\ conn[c].exists =>
                   /\ conn[c].protocol_version = want.protocol_version
                   /\ conn[c].address = want.address
                   /\ conn[c].port = want.port
            /\ \A i \in 1..Len(written[c]) :
                   written[c][i].type = "Handshake" => written[c][i] = hs
            /\ pc[c] = "write_handshake" => pending[c] = hs

\* C9 witness: two handshakes were written on a connection built with port
\* 25566 and protocol version 754.
C9_Witness ==
    /\ asked[1].port = 25566 /\ asked[1].protocol_version = 754
    /\ Len(SelectSeq(written[1], LAMBDA w : w.type = "Handshake")) = 2
    /\ \E i \in 1..Len(written[1]) :
           /\ written[1][i].type = "Handshake"
           /\ written[1][i].server_port = 25566
           /\ written[1][i].protocol_version = 754

\* What is left of `bytes` once n packets were read from it.
RECURSIVE RemainingAfter(_, _)
RemainingAfter(bytes, n) ==
    IF n = 0 THEN bytes ELSE RemainingAfter(ReadPacket(bytes, TRUE).rest, n - 1)

\* The reads of the connection that consumed bytes, among the first n entries
\* of its log.
ReadsBefore(c, n) ==
    Len(SelectSeq(SubSeq(ioLog[c], 1, n),
                  LAMBDA e : e.op = "read_response" /\ e.ev # "start"
                             /\ e.error # "IoError"))

\* What the connection's last call returns when the connection runs alone:
\* decided by the call's own last operation and the connection's own stream.
AloneResult(c) ==
    LET n == Len(ioLog[c])
        last == ioLog[c][n]
        own == RemainingAfter(ServerStreams[served[c]].bytes, ReadsBefore(c, n - 1))
        read == ReadPacket(own, TRUE)
    IN  IF last.op = "write_handshake"
        THEN Err("IoError", "failed to write handshake packet")
        ELSE IF last.op = "write_request"
        THEN Err("IoError", "failed to write request packet")
        ELSE IF last.error = "IoError"
        THEN Err("IoError", "failed to read response packet")
        ELSE IF read.ok THEN Ok("String", read.body)
        ELSE Err(read.err, "failed to read response packet")

\* The packets of the connection's successful writes, by its log.
WrittenByLog(c) ==
    LET done == SelectSeq(ioLog[c], LAMBDA e : e.ev = "ok" /\ e.op # "read_response")
    IN  [i \in 1..Len(done) |->
            IF done[i].op = "write_handshake"
            THEN [type |-> "Handshake",
                  protocol_version |-> 578,
                  server_address |-> "localhost",
                  server_port |-> 25565 + c,
                  next_state |-> 1]
            ELSE [type |-> "Request"]]

\* C10: with the exchanges of several connections interleaved, every
\* connection has at most one stream operation outstanding, its stream holds
\* its own handshake and then its request for every call (in that order), what
\* is left of its stream is what its own reads left, and the call returns what
\* the exchange returns on that connection alone.
C10_Isolation ==
    \A c \in Conns :
        /\ Outstanding(c) \in {0, 1}
        /\ Outstanding(c) = 1 <=> pc[c] # "idle"
        /\ written[c] = WrittenByLog(c)
        /\ \A k \in 1..calls[c] :
               LET ops == CallOps(c, k)
               IN  \A i \in 1..Len(ops) :
                       ops[i].op = "write_request" =>
                           \E j \in 1..(i - 1) :
                               ops[j].op = "write_handshake" /\ ops[j].ev = "ok"
        /\ incoming[c] =
               RemainingAfter(ServerStreams[served[c]].bytes,
                              ReadsBefore(c, Len(ioLog[c])))
        /\ (calls[c] >= 1 /\ pc[c] = "idle") =>
               /\ raw[c] = AloneResult(c)
               /\ api[c] = "status_raw" => result[c] = raw[c]
               /\ api[c] = "status" =>
                      /\ ~raw[c].ok => result[c] = raw[c]
                      /\ result[c].ok => result[c].body = raw[c].body

\* C10 witness: two connections whose servers answer differently; the second
\* returned its own server's body while the first, which was answered with a
\* wrong packet id, still awaits its read.
C10_Witness ==
    /\ served[1] = 6 /\ served[2] = 1
    /\ pc[1] = "read_response"
    /\ pc[2] = "idle" /\ calls[2] = 1
    /\ raw[2] = Ok("String", JsonGood)
    /\ written[1] # written[2]

====
